---- MODULE Spec2Model ----
(***************************************************************************)
(* Model of the real-time event relay (socket handler) of the backend:     *)
(* presence registry, room directory, messaging, typing timers and call    *)
(* signalling.  JavaScript Maps are sets of <<key, value>> pairs, template  *)
(* strings are sequences of their parts, every await is a separate step.   *)
(***************************************************************************)
EXTENDS Integers, Sequences, FiniteSets, TLC

\* ------------------------------------------------------------------ bounds
MaxTime == 1
MaxTypingTime == 4
MaxSends == 1
MaxReactions == 2

\* ------------------------------------------------------- program constants
TypingTimeoutMs == 3000

\* --------------------------------------------------------------- universes
Sockets == {"s1", "s2", "s3"}
UserIds == {"u1", "u2", "u3", "ub", "ux"}
ExistingUsers == {"u1", "u2", "u3", "ub"}
BlockedUsers == {"ub"}
ConversationIds == {"c1", "c2"}
NoUser == "none"
NoSocket == "none"
NoMessage == 0

\* friends of a user as stored on the user document
Friends(u) ==
  CASE u = "u1" -> {"u2"}
    [] u = "u2" -> {"u1"}
    [] OTHER -> {}

\* participants of the stored conversations; "c2" is the id of no conversation
Participants(c) == IF c = "c1" THEN {"u1", "u2"} ELSE {}
ExistingConversations == {"c1"}

\* handshake credentials: absent, malformed, expired, or a signed token for id
Tokens ==
  {[kind |-> "none", id |-> NoUser], [kind |-> "bad", id |-> NoUser],
   [kind |-> "expired", id |-> "u1"]}
    \cup {[kind |-> "ok", id |-> u] : u \in {"u1", "u2", "ub", "ux"}}

\* ------------------------------------------------------------ JS Map model
MapHas(m, k) == \E p \in m : p[1] = k
MapGet(m, k) == (CHOOSE p \in m : p[1] = k)[2]
\* Map.prototype.delete leaving the entry in place
MapDeleteNothing(m, k) == m

MapDelete(m, k) == {p \in m : p[1] # k}
MapSetKeepOld(m, k, v) == m \cup {<<k, v>>}
MapSet(m, k, v) == {p \in m : p[1] # k} \cup {<<k, v>>}

VARIABLES
  status,       \* socket -> "idle" | "auth" | "rejected" | "open" | "closed"
  token,        \* socket -> credential presented at the handshake
  userId,       \* socket -> socket.userId
  pcConn,       \* socket -> position of the connection handler
  pcDisc,       \* socket -> position of the disconnect handler
  rooms,        \* socket -> rooms the socket has joined
  onlineUsers,  \* Map userId -> socket.id
  typingUsers,  \* Map key -> timer id
  timers,       \* live timers: timer id -> deadline, key and origin
  activeCalls,  \* Map callId -> call data
  isOnline,     \* Durable Store: user -> isOnline
  conversations,\* Durable Store: conversation -> lastMessage, lastMessageAt
  messages,     \* Durable Store: set of message documents
  notifications,\* Notification Sink: the createNotification calls issued
  tasks,        \* send-message handler invocations
  now,          \* clock reading (Date.now)
  registered,   \* history: user -> sockets registered for it, in order
  onlineWrites, \* history: sockets whose handler wrote isOnline: true
  out,          \* events emitted by the last step
  last,         \* the event whose handler took the last step
  videoCall     \* Durable Store: a call record, as loaded and as stored

vars == <<status, token, userId, pcConn, pcDisc, rooms, onlineUsers, typingUsers, timers,
          activeCalls, isOnline, conversations, messages, notifications, tasks, now,
          registered, onlineWrites, out, last, videoCall>>

\* ------------------------------------------------------------------ process
\* No promise of a handler has been rejected without a catch.  The image runs
\* node 22 with no 'unhandledRejection' listener: an unhandled rejection ends the
\* process, after which no event is handled.
ProcessRunning ==
  /\ \A s \in Sockets : pcConn[s] # "failed" /\ pcDisc[s] # "failed"
  /\ \A i \in 1..Len(tasks) : tasks[i].pc # "unhandled"

\* ---------------------------------------------------------- room directory
SocketRoom(s) == <<"socket", s>>
UserRoom(u) == <<"user", u>>
ConversationRoom(c) == <<"conversation", c>>

\* the connected sockets a broadcast to room r reaches; every socket is in the
\* room named by its own id while it is connected
MembersOf(r, st, rm) == {s \in Sockets : st[s] = "open" /\ (r = SocketRoom(s) \/ r \in rm[s])}
Members(r) == MembersOf(r, status, rooms)

\* io.to(target).emit(name, data), sent by the handler of socket from
Emit(name, target, from, data) ==
  [ev |-> name, target |-> target, to |-> Members(target), from |-> from, data |-> data]
\* socket.to(target).emit(name, data): everyone in the room but the sender
EmitExcept(name, target, from, data) ==
  [ev |-> name, target |-> target, to |-> Members(target) \ {from}, from |-> from, data |-> data]

\* a set of users as the sequence in which forEach visits them
RECURSIVE SeqOfSet(_)
SeqOfSet(S) ==
  IF S = {} THEN <<>>
  ELSE LET x == CHOOSE y \in S : TRUE IN <<x>> \o SeqOfSet(S \ {x})

\* ------------------------------------------------------- durable call record
\* answeredAt / endedAt of a record that has none
NoDate == -1

\* the fields of a call record created with the given status (the schema defaults
\* give 'initiated' and duration 0), loaded and stored alike; thrown is the error of
\* the last method call
NewVideoCall(st) ==
  LET fields == [status |-> st, answeredAt |-> NoDate, endedAt |-> NoDate,
                 endReason |-> "none", duration |-> 0]
  IN [doc |-> fields, stored |-> fields, thrown |-> "none"]

\* no connection has been made
RelayIdle ==
  /\ status = [s \in Sockets |-> "idle"]
  /\ token = [s \in Sockets |-> [kind |-> "none", id |-> NoUser]]
  /\ userId = [s \in Sockets |-> NoUser]
  /\ pcConn = [s \in Sockets |-> "none"]
  /\ pcDisc = [s \in Sockets |-> "none"]
  /\ rooms = [s \in Sockets |-> {}]
  /\ onlineUsers = {}
  /\ typingUsers = {}
  /\ timers = {}
  /\ activeCalls = {}
  /\ isOnline = [u \in ExistingUsers |-> FALSE]
  /\ conversations = [c \in ExistingConversations |-> [lastMessage |-> NoMessage, lastMessageAt |-> 0]]
  /\ messages = {}
  /\ notifications = {}
  /\ tasks = <<>>
  /\ now = 0
  /\ registered = [u \in UserIds |-> <<>>]
  /\ onlineWrites = {}
  /\ out = <<>>
  /\ last = "none"

Init == RelayIdle /\ videoCall = NewVideoCall("initiated")

\* ------------------------------------------------- authentication middleware
\* jwt.verify(token, secret): throws unless the token is signed and unexpired
JwtVerifies(tok) == tok.kind = "ok"

\* io.use, up to the await of User.findById
Handshake(s, tok) ==
  /\ last' = "handshake"
  /\ status[s] = "idle"
  /\ token' = [token EXCEPT ![s] = tok]
  /\ status' = [status EXCEPT ![s] =
       IF tok.kind = "none" THEN "rejected"
       ELSE IF ~JwtVerifies(tok) THEN "rejected"
       ELSE "auth"]
  /\ out' = <<>>
  /\ UNCHANGED <<userId, pcConn, pcDisc, rooms, onlineUsers, typingUsers, timers, activeCalls,
                 isOnline, conversations, messages, notifications, tasks, now, registered, onlineWrites>>
  /\ ProcessRunning
  /\ UNCHANGED videoCall

\* if (!user || user.isBlocked) return next(new Error('Invalid user'))
AuthAcceptsBlocked(id) == id \in ExistingUsers
AuthAccepts(id) == id \in ExistingUsers /\ id \notin BlockedUsers

\* io.use after User.findById resolved (found) or threw (~found is the catch), then,
\* for an accepted socket, the connection handler up to its first await
AuthLookup(s, storeOk) ==
  /\ last' = "connection"
  /\ status[s] = "auth"
  /\ IF storeOk /\ AuthAccepts(token[s].id)
     THEN /\ status' = [status EXCEPT ![s] = "open"]
          /\ userId' = [userId EXCEPT ![s] = token[s].id]
          /\ onlineUsers' = MapSet(onlineUsers, token[s].id, s)
          /\ registered' = [registered EXCEPT ![token[s].id] = Append(@, s)]
          /\ pcConn' = [pcConn EXCEPT ![s] = "update"]
     ELSE /\ status' = [status EXCEPT ![s] = "rejected"]
          /\ UNCHANGED <<userId, onlineUsers, registered, pcConn>>
  /\ out' = <<>>
  /\ UNCHANGED <<token, pcDisc, rooms, typingUsers, timers, activeCalls, isOnline,
                 conversations, messages, notifications, tasks, now, onlineWrites>>
  /\ ProcessRunning
  /\ UNCHANGED videoCall

\* ------------------------------------------------------ connection handler
\* await User.findByIdAndUpdate(..., {isOnline: true}) resolved or threw; socket.join
ConnUpdated(s, storeOk) ==
  /\ last' = "connection"
  /\ pcConn[s] = "update"
  /\ IF storeOk
     THEN /\ isOnline' = [isOnline EXCEPT ![userId[s]] = TRUE]
          /\ onlineWrites' = onlineWrites \cup {s}
          /\ rooms' = [rooms EXCEPT ![s] = @ \cup {UserRoom(userId[s])}]
          /\ pcConn' = [pcConn EXCEPT ![s] = "friends"]
     ELSE /\ pcConn' = [pcConn EXCEPT ![s] = "failed"]
          /\ UNCHANGED <<isOnline, onlineWrites, rooms>>
  /\ out' = <<>>
  /\ UNCHANGED <<status, token, userId, pcDisc, onlineUsers, typingUsers, timers, activeCalls,
                 conversations, messages, notifications, tasks, now, registered>>
  /\ ProcessRunning
  /\ UNCHANGED videoCall

\* the friend-online / friend-offline fan-out of socket s to the friends present
FriendEvents(name, s, present) ==
  LET fs == SeqOfSet({f \in Friends(userId[s]) : MapHas(present, f)})
  IN [i \in 1..Len(fs) |->
        Emit(name, SocketRoom(MapGet(present, fs[i])), s, [userId |-> userId[s]])]

\* await User.findById(...).populate('friends') resolved or threw; the handlers of
\* the socket are registered only now
ConnFriends(s, storeOk) ==
  /\ last' = "connection"
  /\ pcConn[s] = "friends"
  /\ IF storeOk
     THEN /\ out' = FriendEvents("friend-online", s, onlineUsers)
          /\ pcConn' = [pcConn EXCEPT ![s] = "ready"]
     ELSE /\ out' = <<>>
          /\ pcConn' = [pcConn EXCEPT ![s] = "failed"]
  /\ UNCHANGED <<status, token, userId, pcDisc, rooms, onlineUsers, typingUsers, timers,
                 activeCalls, isOnline, conversations, messages, notifications, tasks, now, registered,
                 onlineWrites>>
  /\ ProcessRunning
  /\ UNCHANGED videoCall

\* a connected socket whose handlers are registered
Ready(s) == status[s] = "open" /\ pcConn[s] = "ready"

\* ------------------------------------------------------------ template keys
\* The templates of the typing key and of the call id escape their parentheses
\* and have no ${...} in front of conversationId, userId and to, so these names
\* stay literal text: only Date.now() is substituted into the call id.
TypingKey(conversationId, uid) == <<"( {conversationId}: ){socket.userId}">>
CallId(uid, to, t) == <<"( {socket.userId}- ){to}-", t>>

\* k.endsWith(`:${uid}`), on keys as sequences of template parts
EndsWithUser(k, uid) == Len(k) >= 2 /\ k[Len(k) - 1] = ":" /\ k[Len(k)] = uid

\* ------------------------------------------------------- disconnect handler
\* the value of clearTimeout(t), which the cleanup tests before deleting the key
ClearTimeoutResult == FALSE

\* typingUsers.forEach((t, k) => k.endsWith(`:uid`) && clearTimeout(t) && typingUsers.delete(k))
TimersAfterDisconnect(uid) == {tm \in timers : ~EndsWithUser(tm.key, uid)}
TypingAfterDisconnect(uid) ==
  {p \in typingUsers : ~(EndsWithUser(p[1], uid) /\ ClearTimeoutResult)}

\* socket.on('disconnect') ending only the sessions the identity initiated
CallsOfCaller(uid) == {p \in activeCalls : p[2].caller = uid}

\* the sessions that reference uid as caller or recipient
CallsOf(uid) == {p \in activeCalls : p[2].caller = uid \/ p[2].recipient = uid}

\* the call ids of a set of sessions in Map order (the order of insertion, which
\* is the order of their clock readings)
RECURSIVE CallOrder(_)
CallOrder(cs) ==
  IF cs = {} THEN <<>>
  ELSE LET p == CHOOSE q \in cs : \A r \in cs : q[1][2] <= r[1][2]
       IN <<p>> \o CallOrder(cs \ {p})

\* activeCalls.forEach: call-ended to the other party of each session of uid, looked
\* up in the registry after the entry of uid was deleted
DisconnectCallEvents(s, present, st) ==
  LET cs == CallOrder(CallsOf(userId[s]))
      other(c) == IF c.caller = userId[s] THEN c.recipient ELSE c.caller
      hit == SelectSeq(cs, LAMBDA p : MapHas(present, other(p[2])))
  IN [i \in 1..Len(hit) |->
        [ev |-> "call-ended", target |-> SocketRoom(MapGet(present, other(hit[i][2]))),
         to |-> MembersOf(SocketRoom(MapGet(present, other(hit[i][2]))), st, rooms),
         from |-> s, data |-> [callId |-> hit[i][1], reason |-> "disconnect"]]]

\* The transport of s closes: the socket leaves its rooms and 'disconnect' is
\* emitted.  The listener exists only once the connection handler has passed its
\* two awaits; it then runs up to its first await.
Close(s) ==
  /\ last' = "disconnect"
  /\ status[s] = "open"
  /\ status' = [status EXCEPT ![s] = "closed"]
  /\ rooms' = [rooms EXCEPT ![s] = {}]
  /\ IF pcConn[s] = "ready"
     THEN /\ onlineUsers' = MapDelete(onlineUsers, userId[s])
          /\ timers' = TimersAfterDisconnect(userId[s])
          /\ typingUsers' = TypingAfterDisconnect(userId[s])
          /\ activeCalls' = activeCalls \ CallsOf(userId[s])
          /\ out' = DisconnectCallEvents(s, onlineUsers', status')
          /\ pcDisc' = [pcDisc EXCEPT ![s] = "update"]
     ELSE /\ out' = <<>>
          /\ UNCHANGED <<onlineUsers, timers, typingUsers, activeCalls, pcDisc>>
  /\ UNCHANGED <<token, userId, pcConn, isOnline, conversations, messages, notifications, tasks, now,
                 registered, onlineWrites>>
  /\ ProcessRunning
  /\ UNCHANGED videoCall

\* await User.findByIdAndUpdate(..., {isOnline: false}) resolved or threw
DiscUpdated(s, storeOk) ==
  /\ last' = "disconnect"
  /\ pcDisc[s] = "update"
  /\ IF storeOk
     THEN /\ isOnline' = [isOnline EXCEPT ![userId[s]] = FALSE]
          /\ pcDisc' = [pcDisc EXCEPT ![s] = "friends"]
     ELSE /\ pcDisc' = [pcDisc EXCEPT ![s] = "failed"]
          /\ UNCHANGED isOnline
  /\ out' = <<>>
  /\ UNCHANGED <<status, token, userId, pcConn, rooms, onlineUsers, typingUsers, timers,
                 activeCalls, conversations, messages, notifications, tasks, now, registered, onlineWrites>>
  /\ ProcessRunning
  /\ UNCHANGED videoCall

\* await User.findById(...).populate('friends') resolved or threw; friend-offline
DiscFriends(s, storeOk) ==
  /\ last' = "disconnect"
  /\ pcDisc[s] = "friends"
  /\ IF storeOk
     THEN /\ out' = FriendEvents("friend-offline", s, onlineUsers)
          /\ pcDisc' = [pcDisc EXCEPT ![s] = "done"]
     ELSE /\ out' = <<>>
          /\ pcDisc' = [pcDisc EXCEPT ![s] = "failed"]
  /\ UNCHANGED <<status, token, userId, pcConn, rooms, onlineUsers, typingUsers, timers,
                 activeCalls, isOnline, conversations, messages, notifications, tasks, now, registered,
                 onlineWrites>>
  /\ ProcessRunning
  /\ UNCHANGED videoCall

\* ---------------------------------------------------------- call signalling
\* socket.on('initiate-call') with the presence check removed
InitiateCallUnchecked(s, to) ==
  /\ last' = "initiate-call"
  /\ Ready(s)
  /\ activeCalls' = MapSet(activeCalls, CallId(userId[s], to, now),
                           [caller |-> userId[s], recipient |-> to, callType |-> "video"])
  /\ out' = <<[ev |-> "incoming-call", target |-> SocketRoom(NoSocket), to |-> {}, from |-> s,
               data |-> [callId |-> CallId(userId[s], to, now), from |-> userId[s]]]>>
  /\ UNCHANGED <<status, token, userId, pcConn, pcDisc, rooms, onlineUsers, typingUsers, timers,
                 isOnline, conversations, messages, notifications, tasks, now, registered, onlineWrites>>
  /\ ProcessRunning
  /\ UNCHANGED videoCall

\* socket.on('initiate-call', ({ to, offer, callType = 'video' }) => ...)
InitiateCall(s, to) ==
  /\ last' = "initiate-call"
  /\ Ready(s)
  /\ IF ~MapHas(onlineUsers, to)
     THEN /\ out' = <<Emit("call-rejected", SocketRoom(s), s, [reason |-> "User offline"])>>
          /\ UNCHANGED activeCalls
     ELSE /\ activeCalls' = MapSet(activeCalls, CallId(userId[s], to, now),
                                   [caller |-> userId[s], recipient |-> to, callType |-> "video"])
          /\ out' = <<Emit("incoming-call", SocketRoom(MapGet(onlineUsers, to)), s,
                           [callId |-> CallId(userId[s], to, now), from |-> userId[s]])>>
  /\ UNCHANGED <<status, token, userId, pcConn, pcDisc, rooms, onlineUsers, typingUsers, timers,
                 isOnline, conversations, messages, notifications, tasks, now, registered, onlineWrites>>
  /\ ProcessRunning
  /\ UNCHANGED videoCall

\* -------------------------------------------------------------------- clock
\* a second passes
Tick ==
  /\ last' = "tick"
  /\ now < MaxTime * 1000
  /\ now' = now + 1000
  /\ out' = <<>>
  /\ UNCHANGED <<status, token, userId, pcConn, pcDisc, rooms, onlineUsers, typingUsers, timers,
                 activeCalls, isOnline, conversations, messages, notifications, tasks, registered, onlineWrites>>
  /\ ProcessRunning
  /\ UNCHANGED videoCall

\* ------------------------------------------- connections, presence and calls
Next ==
  \/ \E s \in Sockets, tok \in Tokens : Handshake(s, tok)
  \/ \E s \in Sockets, ok \in BOOLEAN : AuthLookup(s, ok)
  \/ \E s \in Sockets, ok \in BOOLEAN : ConnUpdated(s, ok)
  \/ \E s \in Sockets, ok \in BOOLEAN : ConnFriends(s, ok)
  \/ \E s \in Sockets : Close(s)
  \/ \E s \in Sockets, ok \in BOOLEAN : DiscUpdated(s, ok)
  \/ \E s \in Sockets, ok \in BOOLEAN : DiscFriends(s, ok)

Spec == Init /\ [][Next]_vars

\* ------------------------------------------------ a relay with its users connected
\* the identity each socket authenticated as
ConnectedAs(s) ==
  CASE s = "s1" -> "u1"
    [] s = "s2" -> "u2"
    [] OTHER -> "u3"

\* every socket has authenticated and its connection handler has completed
InitConnected ==
  /\ status = [s \in Sockets |-> "open"]
  /\ token = [s \in Sockets |-> [kind |-> "ok", id |-> ConnectedAs(s)]]
  /\ userId = [s \in Sockets |-> ConnectedAs(s)]
  /\ pcConn = [s \in Sockets |-> "ready"]
  /\ pcDisc = [s \in Sockets |-> "none"]
  /\ rooms = [s \in Sockets |-> {UserRoom(ConnectedAs(s))}]
  /\ onlineUsers = {<<ConnectedAs(s), s>> : s \in Sockets}
  /\ typingUsers = {}
  /\ timers = {}
  /\ activeCalls = {}
  /\ isOnline = [u \in ExistingUsers |-> \E s \in Sockets : ConnectedAs(s) = u]
  /\ conversations = [c \in ExistingConversations |-> [lastMessage |-> NoMessage, lastMessageAt |-> 0]]
  /\ messages = {}
  /\ notifications = {}
  /\ tasks = <<>>
  /\ now = 0
  /\ registered = [u \in UserIds |-> SeqOfSet({s \in Sockets : ConnectedAs(s) = u})]
  /\ onlineWrites = Sockets
  /\ out = <<>>
  /\ last = "none"
  /\ videoCall = NewVideoCall("initiated")

\* ----------------------------------------------------------- call signalling
NextCalls ==
  \/ \E s \in Sockets, to \in UserIds : InitiateCall(s, to)
  \/ \E s \in Sockets : Close(s)
  \/ \E s \in Sockets, ok \in BOOLEAN : DiscUpdated(s, ok)
  \/ \E s \in Sockets, ok \in BOOLEAN : DiscFriends(s, ok)
  \/ Tick

SpecCalls == InitConnected /\ [][NextCalls]_vars

\* ------------------------------------------------------------------- rooms
\* socket.on('join-conversation', (conversationId) => socket.join(...))
JoinConversation(s, c) ==
  /\ last' = "join-conversation"
  /\ Ready(s)
  /\ rooms' = [rooms EXCEPT ![s] = @ \cup {ConversationRoom(c)}]
  /\ out' = <<>>
  /\ UNCHANGED <<status, token, userId, pcConn, pcDisc, onlineUsers, typingUsers, timers,
                 activeCalls, isOnline, conversations, messages, notifications, tasks, now, registered,
                 onlineWrites>>
  /\ ProcessRunning
  /\ UNCHANGED videoCall

\* socket.on('leave-conversation', (conversationId) => socket.leave(...))
LeaveConversation(s, c) ==
  /\ last' = "leave-conversation"
  /\ Ready(s)
  /\ rooms' = [rooms EXCEPT ![s] = @ \ {ConversationRoom(c)}]
  /\ out' = <<>>
  /\ UNCHANGED <<status, token, userId, pcConn, pcDisc, onlineUsers, typingUsers, timers,
                 activeCalls, isOnline, conversations, messages, notifications, tasks, now, registered,
                 onlineWrites>>
  /\ ProcessRunning
  /\ UNCHANGED videoCall

\* ---------------------------------------------------------------- messaging
\* the message content sent, as a sequence of characters: " hi ", which the schema trims
Contents == {<<" ", "h", "i", " ">>}

\* the schema option trim: true of Message.content, applied when the document is created
RECURSIVE TrimLeft(_)
TrimLeft(str) ==
  IF str # <<>> /\ Head(str) = " " THEN TrimLeft(Tail(str)) ELSE str
RECURSIVE TrimRight(_)
TrimRight(str) ==
  IF str # <<>> /\ str[Len(str)] = " " THEN TrimRight(SubSeq(str, 1, Len(str) - 1)) ELSE str
Trim(str) == TrimRight(TrimLeft(str))

\* the result of Conversation.findById(conversationId); null when there is none
FindConversation(c) ==
  IF c \in ExistingConversations
  THEN [found |-> TRUE, participants |-> Participants(c),
        lastMessageAt |-> conversations[c].lastMessageAt]
  ELSE [found |-> FALSE, participants |-> {}, lastMessageAt |-> 0]

\* conversation?.participants.includes(socket.userId), without the membership test
IsParticipantOfAny(doc, uid) == doc.found
\* conversation?.participants.includes(socket.userId)
IsParticipant(doc, uid) == doc.found /\ uid \in doc.participants

\* the document Message.create stores for invocation i (its _id is i)
MessageDoc(i) ==
  [id |-> i, conversation |-> tasks[i].conversationId, sender |-> userId[tasks[i].sock],
   content |-> Trim(tasks[i].content), reactions |-> <<>>, version |-> 0]

\* the catch block reporting the error to the conversation room
SendFailedToRoom(i) ==
  /\ tasks' = [tasks EXCEPT ![i].pc = "failed", ![i].emitted = Append(@, "message-error")]
  /\ out' = <<Emit("message-error", ConversationRoom(tasks[i].conversationId), tasks[i].sock,
                   [error |-> "Failed to send"])>>

\* catch (err) { socket.emit('message-error', { error: 'Failed to send' }) }
SendFailed(i) ==
  /\ tasks' = [tasks EXCEPT ![i].pc = "failed", ![i].emitted = Append(@, "message-error")]
  /\ out' = <<Emit("message-error", SocketRoom(tasks[i].sock), tasks[i].sock,
                   [error |-> "Failed to send"])>>

\* socket.on('send-message') up to the await of Conversation.findById
SendMessage(s, c, content) ==
  /\ last' = "send-message"
  /\ Ready(s)
  /\ Len(tasks) < MaxSends
  /\ tasks' = Append(tasks, [sock |-> s, conversationId |-> c, content |-> content,
                             pc |-> "find", readAt |-> 0, date |-> 0, emitted |-> <<>>])
  /\ out' = <<>>
  /\ UNCHANGED <<status, token, userId, pcConn, pcDisc, rooms, onlineUsers, typingUsers, timers,
                 activeCalls, isOnline, conversations, messages, notifications, now, registered,
                 onlineWrites>>
  /\ ProcessRunning
  /\ UNCHANGED videoCall

\* Conversation.findById resolved or threw; the participant check; Message.create is called
SendFound(i, storeOk) ==
  /\ last' = "send-message"
  /\ tasks[i].pc = "find"
  /\ IF ~storeOk
     THEN SendFailed(i)
     ELSE /\ out' = <<>>
          /\ IF ~IsParticipant(FindConversation(tasks[i].conversationId), userId[tasks[i].sock])
             THEN tasks' = [tasks EXCEPT ![i].pc = "dropped"]
             ELSE tasks' = [tasks EXCEPT ![i].pc = "create",
                              ![i].readAt = FindConversation(tasks[i].conversationId).lastMessageAt]
  /\ UNCHANGED <<status, token, userId, pcConn, pcDisc, rooms, onlineUsers, typingUsers, timers,
                 activeCalls, isOnline, conversations, messages, notifications, now, registered,
                 onlineWrites>>
  /\ ProcessRunning
  /\ UNCHANGED videoCall

\* send-message continuing to the broadcast although Message.create threw
SendCreatedIgnoringFailure(i, storeOk) ==
  /\ last' = "send-message"
  /\ tasks[i].pc = "create"
  /\ messages' = IF storeOk THEN messages \cup {MessageDoc(i)} ELSE messages
  /\ IF storeOk
     THEN /\ tasks' = [tasks EXCEPT ![i].pc = "populate"]
          /\ out' = <<>>
     ELSE /\ tasks' = [tasks EXCEPT ![i].pc = "done", ![i].emitted = Append(@, "new-message")]
          /\ out' = <<Emit("new-message", ConversationRoom(tasks[i].conversationId),
                           tasks[i].sock, MessageDoc(i))>>
  /\ UNCHANGED <<status, token, userId, pcConn, pcDisc, rooms, onlineUsers, typingUsers, timers,
                 activeCalls, isOnline, conversations, notifications, now, registered,
                 onlineWrites>>
  /\ ProcessRunning
  /\ UNCHANGED videoCall

\* Message.create resolved (the message is stored) or threw; message.populate is called
SendCreated(i, storeOk) ==
  /\ last' = "send-message"
  /\ tasks[i].pc = "create"
  /\ IF ~storeOk
     THEN /\ SendFailed(i)
          /\ UNCHANGED messages
     ELSE /\ messages' = messages \cup {MessageDoc(i)}
          /\ tasks' = [tasks EXCEPT ![i].pc = "populate"]
          /\ out' = <<>>
  /\ UNCHANGED <<status, token, userId, pcConn, pcDisc, rooms, onlineUsers, typingUsers, timers,
                 activeCalls, isOnline, conversations, notifications, now, registered,
                 onlineWrites>>
  /\ ProcessRunning
  /\ UNCHANGED videoCall

\* message.populate resolved or threw; lastMessage and lastMessageAt = new Date() are
\* set on the loaded conversation and conversation.save is called
SendPopulated(i, storeOk) ==
  /\ last' = "send-message"
  /\ tasks[i].pc = "populate"
  /\ IF ~storeOk
     THEN SendFailed(i)
     ELSE /\ tasks' = [tasks EXCEPT ![i].pc = "save", ![i].date = now]
          /\ out' = <<>>
  /\ UNCHANGED <<status, token, userId, pcConn, pcDisc, rooms, onlineUsers, typingUsers, timers,
                 activeCalls, isOnline, conversations, messages, notifications, now, registered,
                 onlineWrites>>
  /\ ProcessRunning
  /\ UNCHANGED videoCall

\* the participants createNotification is called for: not the sender, not present
\* every participant but the sender, present or not
OtherParticipants(i) ==
  {p \in Participants(tasks[i].conversationId) : p # userId[tasks[i].sock]}

OfflineParticipants(i) ==
  {p \in Participants(tasks[i].conversationId) :
     p # userId[tasks[i].sock] /\ ~MapHas(onlineUsers, p)}

\* send-message broadcasting with socket.to(room), which leaves the sender out
SendSavedToOthers(i, storeOk) ==
  /\ last' = "send-message"
  /\ tasks[i].pc = "save"
  /\ IF ~storeOk
     THEN /\ SendFailed(i)
          /\ UNCHANGED <<conversations, notifications>>
     ELSE /\ conversations' = [conversations EXCEPT ![tasks[i].conversationId] =
                                 [lastMessage |-> i, lastMessageAt |-> tasks[i].date]]
          /\ tasks' = [tasks EXCEPT ![i].pc = "done", ![i].emitted = Append(@, "new-message")]
          /\ out' = <<EmitExcept("new-message", ConversationRoom(tasks[i].conversationId),
                                 tasks[i].sock, MessageDoc(i))>>
          /\ notifications' = notifications \cup
               {[recipient |-> p, sender |-> userId[tasks[i].sock], message |-> i] :
                  p \in OfflineParticipants(i)}
  /\ UNCHANGED <<status, token, userId, pcConn, pcDisc, rooms, onlineUsers, typingUsers, timers,
                 activeCalls, isOnline, messages, now, registered, onlineWrites>>
  /\ ProcessRunning
  /\ UNCHANGED videoCall

\* conversation.save resolved or threw; the broadcast to the conversation room and the
\* notifications of the participants that are not present
SendSaved(i, storeOk) ==
  /\ last' = "send-message"
  /\ tasks[i].pc = "save"
  /\ IF ~storeOk
     THEN /\ SendFailed(i)
          /\ UNCHANGED <<conversations, notifications>>
     ELSE /\ conversations' = [conversations EXCEPT ![tasks[i].conversationId] =
                                 [lastMessage |-> i, lastMessageAt |-> tasks[i].date]]
          /\ tasks' = [tasks EXCEPT ![i].pc = "done", ![i].emitted = Append(@, "new-message")]
          /\ out' = <<Emit("new-message", ConversationRoom(tasks[i].conversationId),
                           tasks[i].sock, MessageDoc(i))>>
          /\ notifications' = notifications \cup
               {[recipient |-> p, sender |-> userId[tasks[i].sock], message |-> i] :
                  p \in OfflineParticipants(i)}
  /\ UNCHANGED <<status, token, userId, pcConn, pcDisc, rooms, onlineUsers, typingUsers, timers,
                 activeCalls, isOnline, messages, now, registered, onlineWrites>>
  /\ ProcessRunning
  /\ UNCHANGED videoCall

\* Messaging with connections joining and leaving rooms and closing.  The two store
\* calls that end the disconnect handler touch only isOnline and the friends of the
\* user, which no messaging step reads; they are scheduled in Spec, SpecCalls and
\* SpecTyping.
NextMsg ==
  \/ \E s \in Sockets, c \in ExistingConversations : JoinConversation(s, c)
  \/ \E s \in Sockets, c \in ExistingConversations : LeaveConversation(s, c)
  \/ \E s \in Sockets, c \in ConversationIds, m \in Contents : SendMessage(s, c, m)
  \/ \E i \in 1..Len(tasks), ok \in BOOLEAN : SendFound(i, ok)
  \/ \E i \in 1..Len(tasks), ok \in BOOLEAN : SendCreated(i, ok)
  \/ \E i \in 1..Len(tasks), ok \in BOOLEAN : SendPopulated(i, ok)
  \/ \E i \in 1..Len(tasks), ok \in BOOLEAN : SendSaved(i, ok)
  \/ \E s \in Sockets : Close(s)
  \/ Tick

SpecMsg == InitConnected /\ [][NextMsg]_vars

\* ------------------------------------------------------------------ typing
\* the timer setTimeout(..., 3000) creates at clock reading t for a typing-start
NewTimer(c, uid, t) ==
  [key |-> TypingKey(c, uid), deadline |-> t + TypingTimeoutMs, conversationId |-> c,
   userId |-> uid]

\* socket.on('typing-start') with the typingUsers.has(key) test removed
TypingStartAlways(s, c) ==
  /\ last' = "typing-start"
  /\ Ready(s)
  /\ timers' = timers \cup {NewTimer(c, userId[s], now)}
  /\ typingUsers' = MapSet(typingUsers, TypingKey(c, userId[s]), NewTimer(c, userId[s], now))
  /\ out' = <<EmitExcept("typing-start", ConversationRoom(c), s, [userId |-> userId[s]])>>
  /\ UNCHANGED <<status, token, userId, pcConn, pcDisc, rooms, onlineUsers, activeCalls,
                 isOnline, conversations, messages, notifications, tasks, now, registered, onlineWrites>>
  /\ ProcessRunning
  /\ UNCHANGED videoCall

\* socket.on('typing-start', ({ conversationId }) => ...)
TypingStart(s, c) ==
  /\ last' = "typing-start"
  /\ Ready(s)
  /\ IF ~MapHas(typingUsers, TypingKey(c, userId[s]))
     THEN /\ timers' = timers \cup {NewTimer(c, userId[s], now)}
          /\ typingUsers' = MapSet(typingUsers, TypingKey(c, userId[s]),
                                   NewTimer(c, userId[s], now))
          /\ out' = <<EmitExcept("typing-start", ConversationRoom(c), s,
                                 [userId |-> userId[s]])>>
     ELSE /\ out' = <<>>
          /\ UNCHANGED <<timers, typingUsers>>
  /\ UNCHANGED <<status, token, userId, pcConn, pcDisc, rooms, onlineUsers, activeCalls,
                 isOnline, conversations, messages, notifications, tasks, now, registered, onlineWrites>>
  /\ ProcessRunning
  /\ UNCHANGED videoCall

\* socket.on('typing-stop', ({ conversationId }) => ...)
TypingStop(s, c) ==
  /\ last' = "typing-stop"
  /\ Ready(s)
  /\ timers' = IF MapHas(typingUsers, TypingKey(c, userId[s]))
               THEN timers \ {MapGet(typingUsers, TypingKey(c, userId[s]))}
               ELSE timers
  /\ typingUsers' = MapDelete(typingUsers, TypingKey(c, userId[s]))
  /\ out' = <<EmitExcept("typing-stop", ConversationRoom(c), s, [userId |-> userId[s]])>>
  /\ UNCHANGED <<status, token, userId, pcConn, pcDisc, rooms, onlineUsers, activeCalls,
                 isOnline, conversations, messages, notifications, tasks, now, registered, onlineWrites>>
  /\ ProcessRunning
  /\ UNCHANGED videoCall

\* the timer callback () => typingUsers.delete(key), run once the deadline has passed
TimerFire(tm) ==
  /\ last' = "timer"
  /\ tm \in timers
  /\ now >= tm.deadline
  /\ timers' = timers \ {tm}
  /\ typingUsers' = MapDelete(typingUsers, tm.key)
  /\ out' = <<>>
  /\ UNCHANGED <<status, token, userId, pcConn, pcDisc, rooms, onlineUsers, activeCalls,
                 isOnline, conversations, messages, notifications, tasks, now, registered, onlineWrites>>
  /\ ProcessRunning
  /\ UNCHANGED videoCall

\* a second passes; timers that are due run before the clock moves on
TickTyping ==
  /\ last' = "tick"
  /\ now < MaxTypingTime * 1000
  /\ \A tm \in timers : now < tm.deadline
  /\ now' = now + 1000
  /\ out' = <<>>
  /\ UNCHANGED <<status, token, userId, pcConn, pcDisc, rooms, onlineUsers, typingUsers, timers,
                 activeCalls, isOnline, conversations, messages, notifications, tasks, registered, onlineWrites>>
  /\ ProcessRunning
  /\ UNCHANGED videoCall

NextTyping ==
  \/ \E s \in Sockets, c \in ExistingConversations : JoinConversation(s, c)
  \/ \E s \in Sockets, c \in ExistingConversations : LeaveConversation(s, c)
  \/ \E s \in Sockets, c \in ConversationIds : TypingStart(s, c)
  \/ \E s \in Sockets, c \in ConversationIds : TypingStop(s, c)
  \/ \E tm \in timers : TimerFire(tm)
  \/ \E s \in Sockets : Close(s)
  \/ \E s \in Sockets, ok \in BOOLEAN : DiscUpdated(s, ok)
  \/ \E s \in Sockets, ok \in BOOLEAN : DiscFriends(s, ok)
  \/ TickTyping

SpecTyping == InitConnected /\ [][NextTyping]_vars

\* ---------------------------------------------------------- live streaming
\* stream ids a client may send; the last two are the texts that the templates of
\* join-stream put after "stream:"
StreamIds == {"st1", "( {streamId}", " ){streamId}"}
StreamComments == {"hello"}

\* `stream:${streamId}`
StreamRoom(streamId) == <<"stream", streamId>>
\* `stream:\( {streamId}`, the room join-stream emits to: the parenthesis is escaped
\* and no ${...} is present, so the text is the same for every stream
CountTargetRoom(streamId) == <<"stream", "( {streamId}">>
\* `stream: \){streamId}`, the room whose size join-stream reads
CountSourceRoom(streamId) == <<"stream", " ){streamId}">>

\* io.sockets.adapter.rooms.get(...)?.size || 1 : a room without sockets does not exist
ViewerCount(streamId, st, rm) ==
  LET size == Cardinality(MembersOf(CountSourceRoom(streamId), st, rm))
  IN IF size = 0 THEN 1 ELSE size

\* socket.on('start-stream'): join the stream room, socket.broadcast.emit to every
\* other connected socket
StartStream(s, streamId) ==
  /\ last' = "start-stream"
  /\ Ready(s)
  /\ rooms' = [rooms EXCEPT ![s] = @ \cup {StreamRoom(streamId)}]
  /\ out' = <<[ev |-> "stream-started", target |-> <<"namespace", "/">>,
               to |-> {t \in Sockets : status[t] = "open"} \ {s}, from |-> s,
               data |-> [streamId |-> streamId, streamer |-> userId[s]]]>>
  /\ UNCHANGED <<status, token, userId, pcConn, pcDisc, onlineUsers, typingUsers, timers,
                 activeCalls, isOnline, conversations, messages, notifications, tasks, now,
                 registered, onlineWrites>>
  /\ ProcessRunning
  /\ UNCHANGED videoCall

\* socket.on('join-stream'): join, then viewer-count-update
JoinStream(s, streamId) ==
  /\ last' = "join-stream"
  /\ Ready(s)
  /\ rooms' = [rooms EXCEPT ![s] = @ \cup {StreamRoom(streamId)}]
  /\ out' = <<[ev |-> "viewer-count-update", target |-> CountTargetRoom(streamId),
               to |-> MembersOf(CountTargetRoom(streamId), status, rooms'), from |-> s,
               data |-> [count |-> ViewerCount(streamId, status, rooms')]]>>
  /\ UNCHANGED <<status, token, userId, pcConn, pcDisc, onlineUsers, typingUsers, timers,
                 activeCalls, isOnline, conversations, messages, notifications, tasks, now,
                 registered, onlineWrites>>
  /\ ProcessRunning
  /\ UNCHANGED videoCall

\* socket.on('leave-stream'): leave, nothing is emitted
LeaveStream(s, streamId) ==
  /\ last' = "leave-stream"
  /\ Ready(s)
  /\ rooms' = [rooms EXCEPT ![s] = @ \ {StreamRoom(streamId)}]
  /\ out' = <<>>
  /\ UNCHANGED <<status, token, userId, pcConn, pcDisc, onlineUsers, typingUsers, timers,
                 activeCalls, isOnline, conversations, messages, notifications, tasks, now,
                 registered, onlineWrites>>
  /\ ProcessRunning
  /\ UNCHANGED videoCall

\* socket.on('stream-comment')
StreamComment(s, streamId, comment) ==
  /\ last' = "stream-comment"
  /\ Ready(s)
  /\ out' = <<Emit("new-stream-comment", StreamRoom(streamId), s,
                   [userId |-> userId[s], comment |-> comment, timestamp |-> now])>>
  /\ UNCHANGED <<status, token, userId, pcConn, pcDisc, rooms, onlineUsers, typingUsers,
                 timers, activeCalls, isOnline, conversations, messages, notifications, tasks,
                 now, registered, onlineWrites>>
  /\ ProcessRunning
  /\ UNCHANGED videoCall

NextStream ==
  \/ \E s \in Sockets, streamId \in StreamIds : StartStream(s, streamId)
  \/ \E s \in Sockets, streamId \in StreamIds : JoinStream(s, streamId)
  \/ \E s \in Sockets, streamId \in StreamIds : LeaveStream(s, streamId)
  \/ \E s \in Sockets, streamId \in StreamIds, comment \in StreamComments :
       StreamComment(s, streamId, comment)
  \/ \E s \in Sockets : Close(s)
  \/ \E s \in Sockets, ok \in BOOLEAN : DiscUpdated(s, ok)
  \/ \E s \in Sockets, ok \in BOOLEAN : DiscFriends(s, ok)

SpecStream == InitConnected /\ [][NextStream]_vars

\* ---------------------------------------------------------------- reactions
Emojis == {"like", "love"}
\* message ids a client may send; 2 is the id of no stored message
MessageIds == {1, 2}

\* the messages in the store when the reaction events start: one message of u1 in
\* c1 that u2 has reacted to (saved once)
StoredMessages ==
  {[id |-> 1, conversation |-> "c1", sender |-> "u1", content |-> <<"h", "i">>,
    reactions |-> <<[user |-> "u2", emoji |-> "like"]>>, version |-> 1]}

\* Message.findById(messageId); null when there is none
FindMessage(messageId) ==
  IF \E m \in messages : m.id = messageId
  THEN [found |-> TRUE, doc |-> CHOOSE m \in messages : m.id = messageId]
  ELSE [found |-> FALSE,
        doc |-> [id |-> messageId, conversation |-> "none", sender |-> NoUser,
                 content |-> <<>>, reactions |-> <<>>, version |-> 0]]

\* addReaction without the filter: the reaction is only pushed
AddReactionPushOnly(reactions, uid, emoji) ==
  Append(reactions, [user |-> uid, emoji |-> emoji])

\* messageSchema.methods.addReaction up to save(): drop the reactions of the user,
\* push the new one
AddReaction(reactions, uid, emoji) ==
  Append(SelectSeq(reactions, LAMBDA r : r.user # uid), [user |-> uid, emoji |-> emoji])

\* socket.on('message-reaction') up to the await of Message.findById
MessageReaction(s, messageId, emoji) ==
  /\ last' = "message-reaction"
  /\ Ready(s)
  /\ Len(tasks) < MaxReactions
  /\ tasks' = Append(tasks, [sock |-> s, messageId |-> messageId, emoji |-> emoji,
                             pc |-> "find", doc |-> FindMessage(0).doc, emitted |-> <<>>])
  /\ out' = <<>>
  /\ UNCHANGED <<status, token, userId, pcConn, pcDisc, rooms, onlineUsers, typingUsers, timers,
                 activeCalls, isOnline, conversations, messages, notifications, now, registered,
                 onlineWrites>>
  /\ ProcessRunning
  /\ UNCHANGED videoCall

\* Message.findById resolved or threw (the handler has no catch: the rejection is
\* unhandled); if (!message) return; addReaction changes the loaded document and
\* calls save()
ReactFound(i, storeOk) ==
  /\ last' = "message-reaction"
  /\ tasks[i].pc = "find"
  /\ tasks' =
       IF ~storeOk THEN [tasks EXCEPT ![i].pc = "unhandled"]
       ELSE IF ~FindMessage(tasks[i].messageId).found THEN [tasks EXCEPT ![i].pc = "dropped"]
       ELSE [tasks EXCEPT
               ![i].pc = "save",
               ![i].doc = [FindMessage(tasks[i].messageId).doc EXCEPT
                             !.reactions = AddReaction(@, userId[tasks[i].sock], tasks[i].emoji)]]
  /\ out' = <<>>
  /\ UNCHANGED <<status, token, userId, pcConn, pcDisc, rooms, onlineUsers, typingUsers, timers,
                 activeCalls, isOnline, conversations, messages, notifications, now, registered,
                 onlineWrites>>
  /\ ProcessRunning
  /\ UNCHANGED videoCall

\* save() resolved or threw.  The reactions array was replaced, so the write is
\* conditional on the version key of the document (the schema leaves versionKey on)
\* and throws when the stored document was saved by someone else in between.  After
\* a successful save message-reaction-updated goes to the room of the conversation.
ReactSaved(i, storeOk) ==
  /\ last' = "message-reaction"
  /\ tasks[i].pc = "save"
  /\ IF storeOk /\ FindMessage(tasks[i].messageId).doc.version = tasks[i].doc.version
     THEN /\ messages' = {m \in messages : m.id # tasks[i].messageId}
                           \cup {[tasks[i].doc EXCEPT !.version = @ + 1]}
          /\ tasks' = [tasks EXCEPT ![i].pc = "done",
                                    ![i].emitted = Append(@, "message-reaction-updated")]
          /\ out' = <<Emit("message-reaction-updated",
                           ConversationRoom(tasks[i].doc.conversation), tasks[i].sock,
                           [messageId |-> tasks[i].messageId,
                            reactions |-> tasks[i].doc.reactions])>>
     ELSE /\ tasks' = [tasks EXCEPT ![i].pc = "unhandled"]
          /\ out' = <<>>
          /\ UNCHANGED messages
  /\ UNCHANGED <<status, token, userId, pcConn, pcDisc, rooms, onlineUsers, typingUsers, timers,
                 activeCalls, isOnline, conversations, notifications, now, registered,
                 onlineWrites>>
  /\ ProcessRunning
  /\ UNCHANGED videoCall

\* the rooms of s once it has joined the conversations its user takes part in
JoinedRooms(s) ==
  {UserRoom(ConnectedAs(s))} \cup
    {ConversationRoom(c) : c \in {d \in ExistingConversations : ConnectedAs(s) \in Participants(d)}}

\* every socket has authenticated, its connection handler has completed and it has
\* joined its conversations; msgs are the stored messages, lastMsg the lastMessage of
\* the conversations, tks the handler invocations under way
InitJoined(msgs, lastMsg, tks) ==
  /\ status = [s \in Sockets |-> "open"]
  /\ token = [s \in Sockets |-> [kind |-> "ok", id |-> ConnectedAs(s)]]
  /\ userId = [s \in Sockets |-> ConnectedAs(s)]
  /\ pcConn = [s \in Sockets |-> "ready"]
  /\ pcDisc = [s \in Sockets |-> "none"]
  /\ rooms = [s \in Sockets |-> JoinedRooms(s)]
  /\ onlineUsers = {<<ConnectedAs(s), s>> : s \in Sockets}
  /\ typingUsers = {}
  /\ timers = {}
  /\ activeCalls = {}
  /\ isOnline = [u \in ExistingUsers |-> \E s \in Sockets : ConnectedAs(s) = u]
  /\ conversations = [c \in ExistingConversations |->
                        [lastMessage |-> lastMsg, lastMessageAt |-> 0]]
  /\ messages = msgs
  /\ notifications = {}
  /\ tasks \in tks
  /\ now = 0
  /\ registered = [u \in UserIds |-> SeqOfSet({s \in Sockets : ConnectedAs(s) = u})]
  /\ onlineWrites = Sockets
  /\ out = <<>>
  /\ last = "none"
  /\ videoCall = NewVideoCall("initiated")

\* the users connected and in their rooms, the messages stored, no handler under way
InitReact == InitJoined(StoredMessages, 1, {<<>>})

NextReact ==
  \/ \E s \in Sockets, messageId \in MessageIds, emoji \in Emojis :
       MessageReaction(s, messageId, emoji)
  \/ \E i \in 1..Len(tasks), ok \in BOOLEAN : ReactFound(i, ok)
  \/ \E i \in 1..Len(tasks), ok \in BOOLEAN : ReactSaved(i, ok)

SpecReact == InitReact /\ [][NextReact]_vars

\* ------------------------------------------------------------------ mark-read
\* socket.on('mark-read') up to the await of Message.markConversationAsRead
MarkRead(s, c) ==
  /\ last' = "mark-read"
  /\ Ready(s)
  /\ Len(tasks) < MaxSends
  /\ tasks' = Append(tasks, [sock |-> s, conversationId |-> c, content |-> <<>>,
                             pc |-> "markRead", readAt |-> 0, date |-> 0, emitted |-> <<>>])
  /\ out' = <<>>
  /\ UNCHANGED <<status, token, userId, pcConn, pcDisc, rooms, onlineUsers, typingUsers, timers,
                 activeCalls, isOnline, conversations, messages, notifications, now, registered,
                 onlineWrites>>
  /\ ProcessRunning
  /\ UNCHANGED videoCall

\* Message.markConversationAsRead resolved or threw (no catch: the rejection is
\* unhandled).  The update matches messages by receiver, which no message created by
\* send-message carries, so the stored messages stay as they are; messages-read goes
\* to the conversation room.
MarkReadDone(i, storeOk) ==
  /\ last' = "mark-read"
  /\ tasks[i].pc = "markRead"
  /\ IF storeOk
     THEN /\ tasks' = [tasks EXCEPT ![i].pc = "done", ![i].emitted = Append(@, "messages-read")]
          /\ out' = <<Emit("messages-read", ConversationRoom(tasks[i].conversationId),
                           tasks[i].sock, [userId |-> userId[tasks[i].sock]])>>
     ELSE /\ tasks' = [tasks EXCEPT ![i].pc = "unhandled"]
          /\ out' = <<>>
  /\ UNCHANGED <<status, token, userId, pcConn, pcDisc, rooms, onlineUsers, typingUsers, timers,
                 activeCalls, isOnline, conversations, messages, notifications, now, registered,
                 onlineWrites>>
  /\ ProcessRunning
  /\ UNCHANGED videoCall

\* ------------------------------------------ two events accepted for one room
\* an event for conversation c1 the router has accepted from a participant: a
\* send-message or a mark-read, its handler at its first await
AcceptedEvents ==
  {[sock |-> s, conversationId |-> "c1", content |-> <<"h", "i">>, pc |-> "find",
    readAt |-> 0, date |-> 0, emitted |-> <<>>] : s \in {"s1", "s2"}}
    \cup {[sock |-> s, conversationId |-> "c1", content |-> <<>>, pc |-> "markRead",
           readAt |-> 0, date |-> 0, emitted |-> <<>>] : s \in {"s1", "s2"}}

\* two events were accepted one after the other and their store calls are pending
InitOrder == InitJoined({}, NoMessage, {<<a, b>> : a \in AcceptedEvents, b \in AcceptedEvents})

NextOrder ==
  \/ \E i \in 1..Len(tasks), ok \in BOOLEAN : SendFound(i, ok)
  \/ \E i \in 1..Len(tasks), ok \in BOOLEAN : SendCreated(i, ok)
  \/ \E i \in 1..Len(tasks), ok \in BOOLEAN : SendPopulated(i, ok)
  \/ \E i \in 1..Len(tasks), ok \in BOOLEAN : SendSaved(i, ok)
  \/ \E i \in 1..Len(tasks), ok \in BOOLEAN : MarkReadDone(i, ok)

SpecOrder == InitOrder /\ [][NextOrder]_vars

\* ------------------------------------- handlers whose store calls may fail
\* send-message, mark-read and disconnect of connections that are in their rooms
NextRead ==
  \/ \E s \in Sockets, c \in ExistingConversations : MarkRead(s, c)
  \/ \E i \in 1..Len(tasks), ok \in BOOLEAN : MarkReadDone(i, ok)
  \/ \E s \in Sockets, c \in ExistingConversations, m \in Contents : SendMessage(s, c, m)
  \/ \E i \in 1..Len(tasks), ok \in BOOLEAN : SendFound(i, ok)
  \/ \E i \in 1..Len(tasks), ok \in BOOLEAN : SendCreated(i, ok)
  \/ \E i \in 1..Len(tasks), ok \in BOOLEAN : SendPopulated(i, ok)
  \/ \E i \in 1..Len(tasks), ok \in BOOLEAN : SendSaved(i, ok)
  \/ \E s \in Sockets : Close(s)
  \/ \E s \in Sockets, ok \in BOOLEAN : DiscUpdated(s, ok)
  \/ \E s \in Sockets, ok \in BOOLEAN : DiscFriends(s, ok)

\* the users connected and in their rooms, nothing stored, no handler under way
InitRead == InitJoined({}, NoMessage, {<<>>})

SpecRead == InitRead /\ [][NextRead]_vars

\* ------------------------------------------------ durable call record methods
CallEndReasons == {"caller-ended", "connection-lost"}

\* videoCallSchema.methods.answer without the test of the status
VideoCallAnswerAlways(storeOk) ==
  /\ last' = "answer"
  /\ ProcessRunning
  /\ LET d == [videoCall.doc EXCEPT !.status = "active", !.answeredAt = now]
     IN videoCall' = [doc |-> d, stored |-> IF storeOk THEN d ELSE videoCall.stored,
                      thrown |-> IF storeOk THEN "none" ELSE "save failed"]
  /\ out' = <<>>
  /\ UNCHANGED <<status, token, userId, pcConn, pcDisc, rooms, onlineUsers, typingUsers, timers,
                 activeCalls, isOnline, conversations, messages, notifications, tasks, now,
                 registered, onlineWrites>>

\* videoCallSchema.methods.answer: throws unless the call is ringing or initiated;
\* save() stores the document or throws
VideoCallAnswer(storeOk) ==
  /\ last' = "answer"
  /\ ProcessRunning
  /\ IF videoCall.doc.status \notin {"ringing", "initiated"}
     THEN videoCall' = [videoCall EXCEPT !.thrown = "Call cannot be answered in current state"]
     ELSE LET d == [videoCall.doc EXCEPT !.status = "active", !.answeredAt = now]
          IN videoCall' = [doc |-> d, stored |-> IF storeOk THEN d ELSE videoCall.stored,
                           thrown |-> IF storeOk THEN "none" ELSE "save failed"]
  /\ out' = <<>>
  /\ UNCHANGED <<status, token, userId, pcConn, pcDisc, rooms, onlineUsers, typingUsers, timers,
                 activeCalls, isOnline, conversations, messages, notifications, tasks, now,
                 registered, onlineWrites>>

\* the document after end / reject / markAsMissed set status st and reason at the
\* clock reading t; withDuration is true for end, which computes the duration of an
\* answered call
Terminated(doc, st, reason, t, withDuration) ==
  [doc EXCEPT !.status = st, !.endedAt = t, !.endReason = reason,
              !.duration = IF withDuration /\ doc.answeredAt # NoDate
                           THEN (t - doc.answeredAt) \div 1000 ELSE @]

\* videoCallSchema.methods.end(endedBy, reason): throws if the call has ended
VideoCallEnd(reason, storeOk) ==
  /\ last' = "end"
  /\ ProcessRunning
  /\ IF videoCall.doc.status = "ended"
     THEN videoCall' = [videoCall EXCEPT !.thrown = "Call has already ended"]
     ELSE LET d == Terminated(videoCall.doc, "ended", reason, now, TRUE)
          IN videoCall' = [doc |-> d, stored |-> IF storeOk THEN d ELSE videoCall.stored,
                           thrown |-> IF storeOk THEN "none" ELSE "save failed"]
  /\ out' = <<>>
  /\ UNCHANGED <<status, token, userId, pcConn, pcDisc, rooms, onlineUsers, typingUsers, timers,
                 activeCalls, isOnline, conversations, messages, notifications, tasks, now,
                 registered, onlineWrites>>

\* videoCallSchema.methods.reject(reason): throws if the call has ended
VideoCallReject(reason, storeOk) ==
  /\ last' = "reject"
  /\ ProcessRunning
  /\ IF videoCall.doc.status = "ended"
     THEN videoCall' = [videoCall EXCEPT !.thrown = "Call has already ended"]
     ELSE LET d == Terminated(videoCall.doc, "rejected", reason, now, FALSE)
          IN videoCall' = [doc |-> d, stored |-> IF storeOk THEN d ELSE videoCall.stored,
                           thrown |-> IF storeOk THEN "none" ELSE "save failed"]
  /\ out' = <<>>
  /\ UNCHANGED <<status, token, userId, pcConn, pcDisc, rooms, onlineUsers, typingUsers, timers,
                 activeCalls, isOnline, conversations, messages, notifications, tasks, now,
                 registered, onlineWrites>>

\* videoCallSchema.methods.markAsMissed: no test of the status
VideoCallMarkAsMissed(storeOk) ==
  /\ last' = "markAsMissed"
  /\ ProcessRunning
  /\ LET d == Terminated(videoCall.doc, "missed", "timeout", now, FALSE)
     IN videoCall' = [doc |-> d, stored |-> IF storeOk THEN d ELSE videoCall.stored,
                      thrown |-> IF storeOk THEN "none" ELSE "save failed"]
  /\ out' = <<>>
  /\ UNCHANGED <<status, token, userId, pcConn, pcDisc, rooms, onlineUsers, typingUsers, timers,
                 activeCalls, isOnline, conversations, messages, notifications, tasks, now,
                 registered, onlineWrites>>

\* a call record was created as initiated or ringing; the relay is idle
InitVideoCall == RelayIdle /\ videoCall \in {NewVideoCall(st) : st \in {"initiated", "ringing"}}

NextVideoCall ==
  \/ \E ok \in BOOLEAN : VideoCallAnswer(ok)
  \/ \E reason \in CallEndReasons, ok \in BOOLEAN : VideoCallEnd(reason, ok)
  \/ \E reason \in {"rejected"}, ok \in BOOLEAN : VideoCallReject(reason, ok)
  \/ \E ok \in BOOLEAN : VideoCallMarkAsMissed(ok)
  \/ Tick

SpecVideoCall == InitVideoCall /\ [][NextVideoCall]_vars

\* ---------------------------------------------------- a user connecting again
\* u1 and u2 are connected through s1 and s2; a second connection of u1, s3, has
\* presented its token and waits for the user lookup of the middleware
InitReconnect ==
  /\ status = [s \in Sockets |-> IF s = "s3" THEN "auth" ELSE "open"]
  /\ token = [s \in Sockets |-> [kind |-> "ok", id |-> IF s = "s2" THEN "u2" ELSE "u1"]]
  /\ userId = [s \in Sockets |-> IF s = "s3" THEN NoUser ELSE ConnectedAs(s)]
  /\ pcConn = [s \in Sockets |-> IF s = "s3" THEN "none" ELSE "ready"]
  /\ pcDisc = [s \in Sockets |-> "none"]
  /\ rooms = [s \in Sockets |-> IF s = "s3" THEN {} ELSE {UserRoom(ConnectedAs(s))}]
  /\ onlineUsers = {<<ConnectedAs(s), s>> : s \in {"s1", "s2"}}
  /\ typingUsers = {}
  /\ timers = {}
  /\ activeCalls = {}
  /\ isOnline = [u \in ExistingUsers |-> u \in {"u1", "u2"}]
  /\ conversations = [c \in ExistingConversations |-> [lastMessage |-> NoMessage, lastMessageAt |-> 0]]
  /\ messages = {}
  /\ notifications = {}
  /\ tasks = <<>>
  /\ now = 0
  /\ registered = [u \in UserIds |-> SeqOfSet({s \in {"s1", "s2"} : ConnectedAs(s) = u})]
  /\ onlineWrites = {"s1", "s2"}
  /\ out = <<>>
  /\ last = "none"
  /\ videoCall = NewVideoCall("initiated")

NextReconnect ==
  \/ \E s \in Sockets, ok \in BOOLEAN : AuthLookup(s, ok)
  \/ \E s \in Sockets, ok \in BOOLEAN : ConnUpdated(s, ok)
  \/ \E s \in Sockets, ok \in BOOLEAN : ConnFriends(s, ok)
  \/ \E s \in Sockets, to \in {"u1", "u2"} : InitiateCall(s, to)
  \/ \E s \in Sockets : Close(s)
  \/ \E s \in Sockets, ok \in BOOLEAN : DiscUpdated(s, ok)
  \/ \E s \in Sockets, ok \in BOOLEAN : DiscFriends(s, ok)
  \/ Tick

SpecReconnect == InitReconnect /\ [][NextReconnect]_vars

\* ------------------------------------------- answering and ending calls
\* a call id that is the key of no session
UnknownCallId == <<"unknown">>
\* the call ids a client may send: the keys of the table and an unknown one
CallIdsSent == {p[1] : p \in activeCalls} \cup {UnknownCallId}

\* call.caller === socket.userId ? call.recipient : call.caller
OtherOf(call, uid) == IF call.caller = uid THEN call.recipient ELSE call.caller

\* io.to(otherSocket).emit(name, { callId }) if the user is present
RelayToUser(name, uid, s, callId) ==
  IF MapHas(onlineUsers, uid)
  THEN <<Emit(name, SocketRoom(MapGet(onlineUsers, uid)), s, [callId |-> callId])>>
  ELSE <<>>

\* socket.on('answer-call') also deleting the session
AnswerCallRemoving(s, callId) ==
  /\ last' = "answer-call"
  /\ Ready(s)
  /\ out' = IF MapHas(activeCalls, callId)
            THEN RelayToUser("call-answered", MapGet(activeCalls, callId).caller, s, callId)
            ELSE <<>>
  /\ activeCalls' = MapDelete(activeCalls, callId)
  /\ UNCHANGED <<status, token, userId, pcConn, pcDisc, rooms, onlineUsers, typingUsers, timers,
                 isOnline, conversations, messages, notifications, tasks, now, registered, onlineWrites>>
  /\ ProcessRunning
  /\ UNCHANGED videoCall

\* socket.on('answer-call', ({ callId, answer }) => ...)
AnswerCall(s, callId) ==
  /\ last' = "answer-call"
  /\ Ready(s)
  /\ out' = IF MapHas(activeCalls, callId)
            THEN RelayToUser("call-answered", MapGet(activeCalls, callId).caller, s, callId)
            ELSE <<>>
  /\ UNCHANGED <<status, token, userId, pcConn, pcDisc, rooms, onlineUsers, typingUsers, timers,
                 activeCalls, isOnline, conversations, messages, notifications, tasks, now,
                 registered, onlineWrites>>
  /\ ProcessRunning
  /\ UNCHANGED videoCall

\* socket.on('reject-call') leaving the session in the table
RejectCallKeeping(s, callId) ==
  /\ last' = "reject-call"
  /\ Ready(s)
  /\ out' = IF MapHas(activeCalls, callId)
            THEN RelayToUser("call-rejected", OtherOf(MapGet(activeCalls, callId), userId[s]),
                             s, callId)
            ELSE <<>>
  /\ UNCHANGED <<status, token, userId, pcConn, pcDisc, rooms, onlineUsers, typingUsers, timers,
                 activeCalls, isOnline, conversations, messages, notifications, tasks, now,
                 registered, onlineWrites>>
  /\ ProcessRunning
  /\ UNCHANGED videoCall

\* socket.on('reject-call', ({ callId }) => ...)
RejectCall(s, callId) ==
  /\ last' = "reject-call"
  /\ Ready(s)
  /\ out' = IF MapHas(activeCalls, callId)
            THEN RelayToUser("call-rejected", OtherOf(MapGet(activeCalls, callId), userId[s]),
                             s, callId)
            ELSE <<>>
  /\ activeCalls' = MapDelete(activeCalls, callId)
  /\ UNCHANGED <<status, token, userId, pcConn, pcDisc, rooms, onlineUsers, typingUsers, timers,
                 isOnline, conversations, messages, notifications, tasks, now, registered, onlineWrites>>
  /\ ProcessRunning
  /\ UNCHANGED videoCall

\* socket.on('end-call', ({ callId }) => ...)
EndCall(s, callId) ==
  /\ last' = "end-call"
  /\ Ready(s)
  /\ out' = IF MapHas(activeCalls, callId)
            THEN RelayToUser("call-ended", OtherOf(MapGet(activeCalls, callId), userId[s]),
                             s, callId)
            ELSE <<>>
  /\ activeCalls' = MapDelete(activeCalls, callId)
  /\ UNCHANGED <<status, token, userId, pcConn, pcDisc, rooms, onlineUsers, typingUsers, timers,
                 isOnline, conversations, messages, notifications, tasks, now, registered, onlineWrites>>
  /\ ProcessRunning
  /\ UNCHANGED videoCall

NextSignal ==
  \/ \E s \in Sockets, to \in UserIds : InitiateCall(s, to)
  \/ \E s \in Sockets, callId \in CallIdsSent : AnswerCall(s, callId)
  \/ \E s \in Sockets, callId \in CallIdsSent : RejectCall(s, callId)
  \/ \E s \in Sockets, callId \in CallIdsSent : EndCall(s, callId)
  \/ \E s \in Sockets : Close(s)
  \/ \E s \in Sockets, ok \in BOOLEAN : DiscUpdated(s, ok)
  \/ \E s \in Sockets, ok \in BOOLEAN : DiscFriends(s, ok)
  \/ Tick

SpecSignal == InitConnected /\ [][NextSignal]_vars

\* ===================================================================== claims

\* the entries the Presence Registry holds for identity u
EntriesOf(u) == {p \in onlineUsers : p[1] = u}

\* C1: the Presence Registry holds at most one entry per identity, and an entry
\* maps to the connection registered most recently for that identity.
C1_SinglePresenceEntry ==
  \A u \in UserIds :
    /\ Cardinality(EntriesOf(u)) <= 1
    /\ MapHas(onlineUsers, u) =>
         /\ Len(registered[u]) >= 1
         /\ MapGet(onlineUsers, u) = registered[u][Len(registered[u])]

\* an identity was registered by two connections in turn and its single entry
\* maps to the second one
C1_Witness ==
  \E u \in UserIds :
    /\ Len(registered[u]) = 2
    /\ registered[u][1] # registered[u][2]
    /\ EntriesOf(u) = {<<u, registered[u][2]>>}

\* the credential of s is missing, invalid or expired, or names an identity that is
\* not found or is blocked
BadCredential(s) ==
  \/ token[s].kind # "ok"
  \/ token[s].id \notin ExistingUsers
  \/ token[s].id \in BlockedUsers

\* s has no presence entry, is in no room, wrote no online status, emitted nothing
\* and its connection handler never started
NoTrace(s) ==
  /\ \A p \in onlineUsers : p[2] # s
  /\ \A u \in UserIds : \A i \in 1..Len(registered[u]) : registered[u][i] # s
  /\ rooms[s] = {}
  /\ s \notin onlineWrites
  /\ \A i \in 1..Len(out) : out[i].from # s
  /\ userId[s] = NoUser
  /\ pcConn[s] = "none"
  /\ pcDisc[s] = "none"

\* the send-message invocations
TaskIds == 1..Len(tasks)
\* the identity that sent invocation i
SenderOf(i) == userId[tasks[i].sock]
\* the new-message events among the events of the last step
NewMessages == {k \in 1..Len(out) : out[k].ev = "new-message"}

\* C2: a send-message from an identity that is not a participant of the conversation,
\* or for a conversation that does not exist, creates no persisted message, leaves
\* lastMessage / lastMessageAt alone and emits no new-message.
C2_NonParticipantSendHasNoEffect ==
  /\ \A m \in messages : m.sender \in Participants(m.conversation)
  /\ \A k \in NewMessages : out[k].data.sender \in Participants(out[k].data.conversation)
  /\ \A i \in TaskIds :
       SenderOf(i) \notin Participants(tasks[i].conversationId) =>
         /\ tasks[i].pc \in {"find", "dropped", "failed"}
         /\ tasks[i].emitted \in {<<>>, <<"message-error">>}
         /\ \A m \in messages : m.id # i
         /\ \A c \in ExistingConversations : conversations[c].lastMessage # i

\* an identity that joined the room of a conversation it is no participant of sent a
\* message there, and the message was dropped
C2_Witness ==
  \E i \in TaskIds :
    /\ tasks[i].pc = "dropped"
    /\ tasks[i].conversationId \in ExistingConversations
    /\ SenderOf(i) \notin Participants(tasks[i].conversationId)
    /\ ConversationRoom(tasks[i].conversationId) \in rooms[tasks[i].sock]

\* C3: new-message is broadcast only for a message whose Durable Store write has
\* succeeded.
C3_BroadcastOnlyPersisted ==
  /\ \A k \in NewMessages : out[k].data \in messages
  /\ \A i \in TaskIds :
       tasks[i].emitted # <<>> /\ tasks[i].emitted[1] = "new-message" => MessageDoc(i) \in messages

\* a stored message was broadcast to a room with two connections in it
C3_Witness ==
  \E k \in NewMessages : out[k].data \in messages /\ Cardinality(out[k].to) >= 2

\* C4: when a Durable Store call of send-message fails, no new-message is broadcast
\* and exactly one message-error is emitted, to the sending connection only.
C4_FailureReportedToSenderOnly ==
  /\ [](\A i \in TaskIds : tasks[i].pc = "failed" => tasks[i].emitted = <<"message-error">>)
  /\ [][\A i \in TaskIds :
          (\/ SendFound(i, FALSE) \/ SendCreated(i, FALSE)
           \/ SendPopulated(i, FALSE) \/ SendSaved(i, FALSE)) =>
            /\ tasks'[i].pc = "failed"
            /\ Len(out') = 1
            /\ out'[1].ev = "message-error"
            /\ out'[1].target = SocketRoom(tasks[i].sock)
            /\ out'[1].to \subseteq {tasks[i].sock}
            /\ conversations' = conversations]_vars

\* conversation.save failed after the message was stored: the sender, which is in the
\* conversation room with another connection, alone got message-error
C4_Witness ==
  \E i \in TaskIds :
    /\ tasks[i].pc = "failed"
    /\ MessageDoc(i) \in messages
    /\ Len(out) = 1
    /\ out[1].ev = "message-error"
    /\ out[1].to = {tasks[i].sock}
    /\ Cardinality(Members(ConversationRoom(tasks[i].conversationId))) >= 2

\* C5, as claimed: when A and B are present participants of C and A's send-message
\* with content m is saved, B's connection receives new-message with content m and
\* sender A, and C's lastMessageAt is advanced.
C5_PresentParticipantReceives ==
  [][\A i \in TaskIds :
       (tasks[i].pc = "save" /\ tasks'[i].pc = "done") =>
         \A b \in Participants(tasks[i].conversationId) \ {SenderOf(i)} :
           (MapHas(onlineUsers, SenderOf(i)) /\ MapHas(onlineUsers, b)) =>
             /\ \E k \in 1..Len(out') :
                  /\ out'[k].ev = "new-message"
                  /\ MapGet(onlineUsers, b) \in out'[k].to
                  /\ out'[k].data.content = tasks[i].content
                  /\ out'[k].data.sender = SenderOf(i)
             /\ conversations'[tasks[i].conversationId].lastMessageAt
                  >= conversations[tasks[i].conversationId].lastMessageAt]_vars

\* C5, amended: the new-message of a saved send-message reaches exactly the connections
\* that are in the conversation room at the broadcast (B's, if B has joined), carries
\* sender A and the stored content, m without its surrounding whitespace, and
\* lastMessageAt is the clock reading the handler took, not before the value it read.
C5_RoomMembersReceive ==
  \A k \in NewMessages :
    LET d == out[k].data
        c == out[k].data.conversation
    IN /\ d.id \in TaskIds
       /\ tasks[d.id].pc = "done"
       /\ c = tasks[d.id].conversationId
       /\ out[k].to = {s \in Sockets : status[s] = "open" /\ ConversationRoom(c) \in rooms[s]}
       /\ \A b \in Participants(c) :
            (MapHas(onlineUsers, b) /\ ConversationRoom(c) \in rooms[MapGet(onlineUsers, b)])
              => MapGet(onlineUsers, b) \in out[k].to
       /\ d.sender = SenderOf(d.id)
       /\ d.content = <<"h", "i">>
       /\ conversations[c].lastMessage = d.id
       /\ conversations[c].lastMessageAt = tasks[d.id].date
       /\ tasks[d.id].date >= tasks[d.id].readAt

\* A sent " hi " a second after the conversation was last written; B, present and in
\* the room, received "hi" from A
C5_Witness ==
  \E k \in NewMessages :
    /\ tasks[out[k].data.id].content = <<" ", "h", "i", " ">>
    /\ out[k].data.content = <<"h", "i">>
    /\ conversations[out[k].data.conversation].lastMessageAt > 0
    /\ \E b \in Participants(out[k].data.conversation) \ {out[k].data.sender} :
         MapHas(onlineUsers, b) /\ MapGet(onlineUsers, b) \in out[k].to

\* C6: a join-conversation from an identity that is not a participant never adds the
\* connection to the conversation room, so no broadcast to the room reaches it.
C6_OnlyParticipantsJoin ==
  /\ \A s \in Sockets, c \in ConversationIds :
       ConversationRoom(c) \in rooms[s] => userId[s] \in Participants(c)
  /\ \A k \in 1..Len(out), c \in ConversationIds :
       out[k].target = ConversationRoom(c) => \A s \in out[k].to : userId[s] \in Participants(c)

\* C7: a connection with a missing, invalid or expired credential, or whose identity
\* is not found or blocked, is rejected before any handler runs: no presence entry,
\* no room, no online-status write, no friend-online broadcast.
C7_RejectedLeavesNoTrace ==
  \A s \in Sockets :
    /\ (status[s] # "idle" /\ BadCredential(s)) => status[s] \in {"auth", "rejected"} /\ NoTrace(s)
    /\ status[s] = "rejected" => NoTrace(s)

\* a blocked identity and a missing credential were both rejected while another
\* connection was accepted and announced to a friend
C7_Witness ==
  /\ \E s \in Sockets : status[s] = "rejected" /\ token[s].kind = "ok" /\ token[s].id \in BlockedUsers
  /\ \E s \in Sockets : status[s] = "rejected" /\ token[s].kind = "none"
  /\ \E s \in Sockets : Ready(s)

\* C10: an initiate-call whose target has no Presence Registry entry answers the
\* initiator with call-rejected, reason "User offline", creates no session and emits
\* no incoming-call.
C10_CallToAbsentRejected ==
  [][\A s \in Sockets, to \in UserIds :
       (~MapHas(onlineUsers, to) /\ InitiateCall(s, to)) =>
         /\ activeCalls' = activeCalls
         /\ Len(out') = 1
         /\ out'[1].ev = "call-rejected"
         /\ out'[1].data = [reason |-> "User offline"]
         /\ out'[1].to = {s}]_vars

\* a call to an identity that has disconnected was rejected while a session with
\* another identity is pending
C10_Witness ==
  /\ Len(out) = 1
  /\ out[1].ev = "call-rejected"
  /\ out[1].to = {out[1].from}
  /\ activeCalls # {}
  /\ \E s \in Sockets : status[s] = "closed" /\ ~MapHas(onlineUsers, userId[s])

\* C8: the Typing Timer firing at the end of the debounce interval removes the timer
\* entry and broadcasts typing-stop for that user to the conversation room.
C8_TimerExpiryBroadcastsStop ==
  [][\A tm \in timers :
       TimerFire(tm) =>
         /\ ~MapHas(typingUsers', tm.key)
         /\ \E i \in 1..Len(out') :
              /\ out'[i].ev = "typing-stop"
              /\ out'[i].target = ConversationRoom(tm.conversationId)
              /\ out'[i].data = [userId |-> tm.userId]]_vars

\* the live timers armed for the key of conversation c and user uid
TimersOfKey(c, uid) == {tm \in timers : tm.key = TypingKey(c, uid)}

\* C9: at most one live Typing Timer exists per (conversationId, userId) key, and a
\* typing-start received while a timer of its key is live is a no-op: no timer is
\* created or reset, the deadline stays, nothing is broadcast.
C9_OneTimerPerKey ==
  /\ [](\A c \in ConversationIds, uid \in UserIds : Cardinality(TimersOfKey(c, uid)) <= 1)
  /\ [][\A s \in Sockets, c \in ConversationIds :
          (TypingStart(s, c) /\ TimersOfKey(c, userId[s]) # {}) =>
            /\ timers' = timers
            /\ typingUsers' = typingUsers
            /\ out' = <<>>]_vars

\* a typing-start arrived a second or more after the timer of its key was armed
\* and was ignored
C9_Witness ==
  /\ last = "typing-start"
  /\ out = <<>>
  /\ \E tm \in timers : tm.deadline < now + TypingTimeoutMs

\* the pending Call Sessions that reference identity u
SessionsReferencing(u) == {p \in activeCalls : u \in {p[2].caller, p[2].recipient}}
\* the party of session p that is not u
OtherParty(p, u) == IF p[2].caller = u THEN p[2].recipient ELSE p[2].caller
\* the positions of the call-ended events for call id among the events evs
CallEndedFor(evs, id) ==
  {k \in 1..Len(evs) : evs[k].ev = "call-ended" /\ evs[k].data.callId = id}

ViewersAfter(id) == {t \in Sockets : status'[t] = "open" /\ StreamRoom(id) \in rooms'[t]}

\* C12: the viewer-count-update of a join-stream for stream S is delivered to the
\* connections in the stream room of S and carries the number of connections in that
\* room, and a leave-stream reports the count that remains.
C12_ViewerCountIsRoomSize ==
  [][\A s \in Sockets, id \in StreamIds :
       /\ JoinStream(s, id) =>
            \E k \in 1..Len(out') :
              /\ out'[k].ev = "viewer-count-update"
              /\ out'[k].to = ViewersAfter(id)
              /\ out'[k].data.count = Cardinality(ViewersAfter(id))
       /\ (LeaveStream(s, id) /\ StreamRoom(id) \in rooms[s] /\ ViewersAfter(id) # {}) =>
            \E k \in 1..Len(out') :
              /\ out'[k].ev = "viewer-count-update"
              /\ out'[k].to = ViewersAfter(id)
              /\ out'[k].data.count = Cardinality(ViewersAfter(id))]_vars

\* the reactions of user u among reactions
ReactionsBy(reactions, u) == SelectSeq(reactions, LAMBDA r : r.user = u)
\* the reactions of the users other than u among reactions
ReactionsNotBy(reactions, u) == SelectSeq(reactions, LAMBDA r : r.user # u)
\* the stored message with the given id
Stored(msgs, id) == CHOOSE m \in msgs : m.id = id

Broadcasted(tk) ==
  \E k \in 1..Len(tk.emitted) : tk.emitted[k] \in {"new-message", "messages-read"}

\* C14: of two events accepted for the same room the one accepted first is broadcast
\* first, whatever the order in which their store calls complete: the broadcast of
\* an event is never made after the broadcast of an event accepted later.
C14_BroadcastsInAcceptanceOrder ==
  [][\A i \in 1..Len(tasks), j \in 1..Len(tasks) :
       (i < j /\ tasks[i].conversationId = tasks[j].conversationId) =>
         ~(Broadcasted(tasks[j]) /\ ~Broadcasted(tasks[i]) /\ Broadcasted(tasks'[i]))]_vars

\* C16: a Durable Store failure during the handling of an event (mark-read,
\* send-message, the offline update or the friend lookup of a disconnect) fails only
\* that operation: the handler contains it and the relay process keeps running.
C16_StoreFailureContained ==
  /\ \A s \in Sockets : pcDisc[s] = "failed" => ProcessRunning
  /\ \A i \in 1..Len(tasks) : tasks[i].pc \in {"failed", "unhandled"} => ProcessRunning

\* C15: answer() on a call record whose status is neither 'initiated' nor 'ringing',
\* and end() on a record whose status is 'ended', signal an error and leave status,
\* answeredAt, endedAt, endReason and duration unchanged, loaded and stored.
C15_InvalidTransitionRejected ==
  /\ [][\A ok \in BOOLEAN :
          (VideoCallAnswer(ok) /\ videoCall.doc.status \notin {"initiated", "ringing"}) =>
            /\ videoCall'.thrown = "Call cannot be answered in current state"
            /\ videoCall'.doc = videoCall.doc
            /\ videoCall'.stored = videoCall.stored]_vars
  /\ [][\A reason \in CallEndReasons, ok \in BOOLEAN :
          (VideoCallEnd(reason, ok) /\ videoCall.doc.status = "ended") =>
            /\ videoCall'.thrown = "Call has already ended"
            /\ videoCall'.doc = videoCall.doc
            /\ videoCall'.stored = videoCall.stored]_vars

\* answer() was refused on a call that had been answered and, a second later, ended
C15_Witness ==
  /\ last = "answer"
  /\ videoCall.thrown = "Call cannot be answered in current state"
  /\ videoCall.doc.status = "ended"
  /\ videoCall.doc.answeredAt = 0
  /\ videoCall.doc.duration = 1
  /\ videoCall.stored = videoCall.doc

\* the live timers armed by a typing-start of user uid in conversation c
TimersOfOrigin(c, uid) == {tm \in timers : tm.conversationId = c /\ tm.userId = uid}

\* C17: Typing Timers are keyed by (conversationId, userId): a typing-start of a user
\* in a conversation for which no timer is live is broadcast and arms a timer, whatever
\* timers of other users or conversations are live, and a typing-stop or a timer
\* expiry leaves the timers of every other (conversation, user) as they are.
C17_TimersKeyedPerConversationAndUser ==
  /\ [][\A s \in Sockets, c \in ConversationIds :
          (TypingStart(s, c) /\ TimersOfOrigin(c, userId[s]) = {}) =>
            /\ Len(out') = 1
            /\ out'[1].ev = "typing-start"
            /\ TimersOfOrigin(c, userId[s])' # {}]_vars
  /\ [][\A s \in Sockets, c \in ConversationIds :
          TypingStop(s, c) =>
            \A tm \in timers : tm \notin TimersOfOrigin(c, userId[s]) => tm \in timers']_vars
  /\ [][\A tm \in timers : TimerFire(tm) => timers' = timers \ {tm}]_vars

\* the live timers armed by typing-starts of user uid
TimersOfUser(uid) == {tm \in timers : tm.userId = uid}

\* C18: once the disconnect handler of a connection has run, no Typing Timer of its
\* identity is left, live or in the registry, and the timers of the other identities
\* are as they were.
C18_DisconnectClearsTypingTimers ==
  [][\A s \in Sockets :
       (Close(s) /\ pcConn[s] = "ready") =>
         /\ TimersOfUser(userId[s])' = {}
         /\ \A p \in typingUsers' : p[2].userId # userId[s]
         /\ \A tm \in timers : tm.userId # userId[s] => tm \in timers']_vars

\* the disconnect handler of s has started
DisconnectStarted(s) == pcDisc[s] # "none"

\* C19 as stated: once the disconnect handler of a connection has started, a lookup
\* of its identity in the Presence Registry returns absent.
C19_LookupAbsentAfterDisconnect ==
  \A s \in Sockets : DisconnectStarted(s) => ~MapHas(onlineUsers, userId[s])

\* C19: the disconnect handler removes the Presence Registry entry of its identity in
\* the step in which it starts, before its first await, so before the offline status
\* is persisted and before friend-offline is emitted; from then on no lookup returns
\* the closed connection, and the identity is found again only through a connection
\* that registers later.
C19_EntryRemovedFirst ==
  /\ [][\A s \in Sockets :
          (Close(s) /\ pcConn[s] = "ready") =>
            /\ ~MapHas(onlineUsers', userId[s])
            /\ isOnline' = isOnline
            /\ \A k \in 1..Len(out') : out'[k].ev # "friend-offline"]_vars
  /\ [](\A s \in Sockets : DisconnectStarted(s) => \A p \in onlineUsers : p[2] # s)
  /\ [][\A s \in Sockets :
          (DisconnectStarted(s) /\ ~MapHas(onlineUsers, userId[s])
             /\ MapHas(onlineUsers', userId[s])) =>
            \E t \in Sockets \ {s} : \E ok \in BOOLEAN :
              AuthLookup(t, ok) /\ MapGet(onlineUsers', userId[s]) = t]_vars

\* the disconnect handler of a user has persisted the offline status and told a
\* present friend, and the registry has no entry of the user
C19_Witness ==
  \E k \in 1..Len(out) :
    /\ out[k].ev = "friend-offline"
    /\ out[k].to # {}
    /\ pcDisc[out[k].from] = "done"
    /\ ~MapHas(onlineUsers, userId[out[k].from])
    /\ ~isOnline[userId[out[k].from]]

\* C20: a Presence Registry entry is removed only by the disconnect of the connection
\* it refers to: when a connection closes whose identity is registered to another,
\* newer connection, the entry stays and the pending Call Sessions of the identity
\* are neither removed nor reported ended.
C20_EntryRemovedOnlyByItsConnection ==
  /\ [][\A p \in onlineUsers : ~MapHas(onlineUsers', p[1]) => Close(p[2])]_vars
  /\ [][\A s \in Sockets :
          (Close(s) /\ \E p \in onlineUsers : p[1] = userId[s] /\ p[2] # s) =>
            /\ onlineUsers' = onlineUsers
            /\ activeCalls' = activeCalls
            /\ \A k \in 1..Len(out') : out'[k].ev # "call-ended"]_vars

\* the connection and disconnect handlers of s have nothing left to run
HandlersSettled(s) == pcConn[s] = "ready" /\ pcDisc[s] \in {"none", "done"}

\* C21: a connection that registered a presence entry and closed, also when it closed
\* during its connect-time store calls, has had its disconnect cleanup run once its
\* handlers have nothing left to do: no registry entry maps to it any more and no
\* Call Session is held for a party that is found through it.
C21_ClosedConnectionCleanedUp ==
  \A s \in Sockets :
    (status[s] = "closed" /\ userId[s] # NoUser /\ HandlersSettled(s)) =>
      /\ \A p \in onlineUsers : p[2] # s
      /\ \A c \in activeCalls :
           \A u \in {c[2].caller, c[2].recipient} :
             MapHas(onlineUsers, u) => MapGet(onlineUsers, u) # s

\* C22: answer-call never changes the Call Session Table; for an unknown call id it
\* emits nothing, for a known one it relays call-answered to the connection of the
\* caller if the caller is present and emits nothing otherwise.
C22_AnswerKeepsSession ==
  [][\A s \in Sockets, id \in CallIdsSent :
       AnswerCall(s, id) =>
         /\ activeCalls' = activeCalls
         /\ IF MapHas(activeCalls, id) /\ MapHas(onlineUsers, MapGet(activeCalls, id).caller)
            THEN /\ Len(out') = 1
                 /\ out'[1].ev = "call-answered"
                 /\ out'[1].data.callId = id
                 /\ out'[1].target =
                      SocketRoom(MapGet(onlineUsers, MapGet(activeCalls, id).caller))
            ELSE out' = <<>>]_vars

\* the recipient answered a pending call: the caller's connection received
\* call-answered and the session is still in the table
C22_Witness ==
  /\ last = "answer-call"
  /\ Len(out) = 1
  /\ out[1].ev = "call-answered"
  /\ MapHas(activeCalls, out[1].data.callId)
  /\ userId[out[1].from] = MapGet(activeCalls, out[1].data.callId).recipient
  /\ out[1].to # {}
  /\ out[1].from \notin out[1].to

\* C23: reject-call and end-call on a call id in the table remove exactly that session;
\* when the sender is one of two distinct parties, call-rejected / call-ended goes to
\* the connection of the party that is not the sender if it is present, and nothing
\* is emitted if it is absent; on a call id that is not in the table they change
\* nothing and emit nothing.
C23_RejectEndRemoveSession ==
  [][\A s \in Sockets, id \in CallIdsSent :
       (RejectCall(s, id) \/ EndCall(s, id)) =>
         IF ~MapHas(activeCalls, id)
         THEN activeCalls' = activeCalls /\ out' = <<>>
         ELSE LET call == MapGet(activeCalls, id)
                  other == CHOOSE u \in {call.caller, call.recipient} :
                             u # userId[s] \/ call.caller = call.recipient
              IN /\ activeCalls' = activeCalls \ {<<id, call>>}
                 /\ (userId[s] \in {call.caller, call.recipient}
                       /\ call.caller # call.recipient) =>
                      IF MapHas(onlineUsers, other)
                      THEN /\ Len(out') = 1
                           /\ out'[1].ev = IF RejectCall(s, id) THEN "call-rejected"
                                           ELSE "call-ended"
                           /\ out'[1].data.callId = id
                           /\ out'[1].target = SocketRoom(MapGet(onlineUsers, other))
                      ELSE out' = <<>>]_vars

\* the recipient rejected a call: the caller's connection received call-rejected, the
\* session is gone and the session of another call is still in the table
C23_Witness ==
  /\ last = "reject-call"
  /\ Len(out) = 1
  /\ out[1].ev = "call-rejected"
  /\ out[1].to # {}
  /\ out[1].from \notin out[1].to
  /\ ~MapHas(activeCalls, out[1].data.callId)
  /\ activeCalls # {}

\* C28: an answer-call, reject-call or end-call for a session sent by a connection
\* whose identity is neither its caller nor its recipient leaves the Call Session
\* Table unchanged and delivers no call event.
C28_OnlyPartiesActOnCall ==
  [][\A s \in Sockets, id \in CallIdsSent :
       ((AnswerCall(s, id) \/ RejectCall(s, id) \/ EndCall(s, id))
          /\ MapHas(activeCalls, id)
          /\ userId[s] \notin {MapGet(activeCalls, id).caller,
                               MapGet(activeCalls, id).recipient}) =>
         /\ activeCalls' = activeCalls
         /\ out' = <<>>]_vars

\* send-message task i passes its last store call in this step
SendSucceeds(i) == i \in 1..Len(tasks) /\ tasks[i].pc = "save" /\ tasks'[i].pc = "done"

\* C24: the step in which a send-message succeeds asks the Notification Sink for one
\* notification for each participant of the conversation who is not the sender and has
\* no Presence Registry entry at that moment, and for nobody else; no other step
\* creates a notification.
C24_NotifiesAbsentParticipants ==
  [][/\ \A i \in 1..Len(tasks) :
          (SendSucceeds(i) /\ last' = "send-message") =>
            notifications' = notifications \cup
              {[recipient |-> p, sender |-> userId[tasks[i].sock], message |-> i] :
                 p \in {q \in Participants(tasks[i].conversationId) :
                          /\ q # userId[tasks[i].sock]
                          /\ \A e \in onlineUsers : e[1] # q}}
     /\ (~\E i \in 1..Len(tasks) : SendSucceeds(i) /\ last' = "send-message") =>
          notifications' = notifications]_vars

\* a message was sent while the other participant had no presence entry: that
\* participant, and not the sender, has a notification
C24_Witness ==
  /\ last = "send-message"
  /\ \E i \in 1..Len(tasks) :
       /\ tasks[i].pc = "done"
       /\ \E n \in notifications :
            /\ n.message = i
            /\ n.recipient \in Participants(tasks[i].conversationId)
            /\ n.recipient # userId[tasks[i].sock]
            /\ ~MapHas(onlineUsers, n.recipient)
       /\ \A n \in notifications : n.recipient # userId[tasks[i].sock]

\* the statuses of the enum after which a call is over
TerminalStatuses == {"ended", "rejected", "missed", "declined", "busy", "failed"}

\* C25: once the status of the call record is terminal, no call of answer, end, reject
\* or markAsMissed changes its status, endedAt or endReason.
C25_TerminalStatusIsFinal ==
  [][videoCall.doc.status \in TerminalStatuses =>
       /\ videoCall'.doc.status = videoCall.doc.status
       /\ videoCall'.doc.endedAt = videoCall.doc.endedAt
       /\ videoCall'.doc.endReason = videoCall.doc.endReason]_vars

\* C26: a call of end, reject or markAsMissed that takes the call record from a
\* non-terminal status to a terminal one stamps endedAt and endReason and, if the call
\* had been answered, sets duration to the whole seconds from answeredAt to endedAt;
\* a call that was never answered keeps duration 0.
C26_TerminalStampsDuration ==
  [][(videoCall.doc.status \notin TerminalStatuses
        /\ videoCall'.doc.status \in TerminalStatuses) =>
       /\ videoCall'.doc.endedAt = now
       /\ videoCall'.doc.endReason # "none"
       /\ videoCall'.doc.duration >= 0
       /\ videoCall'.doc.duration =
            IF videoCall.doc.answeredAt # NoDate
            THEN (videoCall'.doc.endedAt - videoCall.doc.answeredAt) \div 1000
            ELSE 0]_vars

\* C27: an initiate-call to a present target adds a session under a call id that was
\* not a key of the table, and leaves every session of the table in place.
C27_CallIdsDistinct ==
  [][(last' = "initiate-call" /\ Len(out') = 1 /\ out'[1].ev = "incoming-call") =>
       /\ \A p \in activeCalls : p[1] # out'[1].data.callId
       /\ activeCalls \subseteq activeCalls'
       /\ Cardinality(activeCalls') = Cardinality(activeCalls) + 1]_vars

\* C29: whenever no disconnect handler is between its first and its last step, the
\* caller and the recipient of every Call Session have a Presence Registry entry.
C29_SessionPartiesPresent ==
  (\A s \in Sockets : pcDisc[s] \in {"none", "done"}) =>
    \A c \in activeCalls :
      \A u \in {c[2].caller, c[2].recipient} : \E e \in onlineUsers : e[1] = u

\* no connection handler and no disconnect handler has a step left to run
AllHandlersSettled ==
  \A s \in Sockets :
    status[s] # "auth" /\ pcConn[s] \in {"none", "ready"} /\ pcDisc[s] \in {"none", "done"}

\* C30: when the step that completes the last connection or disconnect handler
\* delivers friend-online or friend-offline about an identity to the connection of a
\* friend that has been present all along, the event agrees with the registry:
\* friend-online if the identity has a Presence Registry entry, friend-offline if not.
C30_LastPresenceEventAgrees ==
  AllHandlersSettled =>
    \A f \in Sockets :
      (status[f] = "open" /\ <<userId[f], f>> \in onlineUsers) =>
        \A k \in 1..Len(out) :
          (out[k].ev \in {"friend-online", "friend-offline"} /\ f \in out[k].to) =>
            (out[k].ev = "friend-online" <=> \E e \in onlineUsers : e[1] = out[k].data.userId)

====
